---- MODULE Spec2Model ----
(***************************************************************************)
(* Model of python_processing/splitter_14_improved.py: the page-range      *)
(* splitter for page2tei exports.  One run of the script's main block is   *)
(* a linear pipeline over an in-memory source tree, a freshly built TEI    *)
(* tree and two output files.                                              *)
(***************************************************************************)
EXTENDS Integers, Sequences, FiniteSets, TLC

VARIABLES
    pc,                \* position of the main block
    doc,               \* the source file's nodes, in document order
    facs_start_range,  \* [start, stop): range(start, stop)
    year_of_volume,    \* characters of the volume year
    xslt,              \* the stylesheet installed at xslt_path
    transformed_tree,  \* the transform's result, as etree.tostring gives it
    root,              \* "unset" | "none" | "tree"
    parent,            \* node -> enclosing node, 0 for a child of its holder
    holder,            \* node -> "root" | "facsimile" | "div" (top nodes)
    surface_elements,  \* result of extract_surface_elements
    table_elements,    \* result of extract_table_elements
    tei_root,          \* the header that create_tei_header built, if built
    facsimile,         \* children of the new facsimile element, in order
    div,               \* children of the new text/body/div element, in order
    facs_start,        \* loop variable of the page loop
    fs,                \* path -> "absent" | "old" | "tei" | "final"
    final_bytes,       \* bytes written to the final file by this run
    stdout,            \* messages printed
    log,               \* pipeline stages performed, in order
    failed,            \* stage whose failure ended the run, or "none"
    error              \* exception that ended the run, or "none"

vars == <<pc, doc, facs_start_range, year_of_volume, xslt,
          transformed_tree, root, parent, holder, surface_elements, table_elements, tei_root,
          facsimile, div, facs_start, fs, final_bytes, stdout, log, failed,
          error>>

----------------------------------------------------------------------------
\* Bounds of the model.

\* largest number of surface/table/ab nodes in a source document
MaxNodes == 2
\* page numbers of the selection model are 1..MaxPage
MaxPage == 2
\* longest serialized stylesheet result, in bytes
MaxLen == 6
\* longest page range used for the path names
MaxSpan == 2

----------------------------------------------------------------------------
\* Characters and strings (sequences of one-character strings).

NL == "\n"

Digits == <<"0", "1", "2", "3", "4", "5", "6", "7", "8", "9">>

RECURSIVE Str(_)
\* str(n), and "{n}" in an f-string, for n >= 0
Str(n) ==
    IF n < 10 THEN <<Digits[n + 1]>>
    ELSE Str(n \div 10) \o <<Digits[(n % 10) + 1]>>

RECURSIVE ZeroPad(_, _)
ZeroPad(s, width) ==
    IF Len(s) >= width THEN s ELSE ZeroPad(<<"0">> \o s, width)

\* "{n:03d}" for n >= 0
Format03d(n) == ZeroPad(Str(n), 3)

RECURSIVE Replace(_, _, _)
\* bytes.replace(old, new): every non-overlapping occurrence of old, from
\* the left, replaced by new (old is not empty)
Replace(s, old, new) ==
    IF Len(s) < Len(old) THEN s
    ELSE IF SubSeq(s, 1, Len(old)) = old
         THEN new \o Replace(SubSeq(s, Len(old) + 1, Len(s)), old, new)
         ELSE <<s[1]>> \o Replace(Tail(s), old, new)

GtNlLbSp == <<">", NL, "<", "l", "b", " ">>
NlLb == <<NL, "<", "l", "b">>
Lb == <<"<", "l", "b">>

\* the replace chain of clean_transformed_xml, on the serialized bytes
clean_transformed_xml(bytes) ==
    Replace(Replace(bytes, GtNlLbSp, GtNlLbSp), NlLb, Lb)

----------------------------------------------------------------------------
\* Path names of the two output files.

OutputDir == <<"o", "u", "t", "p", "u", "t", "/">>
BeforeXml == <<"_", "b", "e", "f", "o", "r", "e", ".", "x", "m", "l">>
DotXml == <<".", "x", "m", "l">>

range_str(r) ==
    IF r.stop - r.start > 1
    THEN Str(r.start) \o <<"-">> \o Str(r.stop - 1)
    ELSE Str(r.start)

output_file_path(year, r) ==
    OutputDir \o year \o <<"_">> \o range_str(r) \o BeforeXml

\* Faulty variant of formatted_range_str: the numbers are not padded.
formatted_range_str_unpadded(r) ==
    IF r.stop - r.start > 1
    THEN Str(r.start) \o <<"-">> \o Str(r.stop - 1)
    ELSE Str(r.start)

formatted_range_str(r) ==
    IF r.stop - r.start > 1
    THEN Format03d(r.start) \o <<"-">> \o Format03d(r.stop - 1)
    ELSE Format03d(r.start)

transformed_output_path(year, r) ==
    OutputDir \o year \o <<"_">> \o formatted_range_str(r) \o DotXml

IntermediatePath == output_file_path(year_of_volume, facs_start_range)
FinalPath == transformed_output_path(year_of_volume, facs_start_range)

----------------------------------------------------------------------------
\* The source tree.  A node is a surface, table or ab element; refs is the
\* set of page numbers n its key names: xml:id = facs_n for a surface,
\* facs = #facs_n_t1 for a table, every #facs_n_ contained in facs for an ab.

Nodes == 1..Len(doc.nodes)

RECURSIVE TopOf(_, _)
\* the outermost tracked ancestor-or-self of node i
TopOf(par, i) == IF par[i] = 0 THEN i ELSE TopOf(par, par[i])

\* node i is a descendant of the source root element
InRoot(par, hol, i) == hol[TopOf(par, i)] = "root"

\* the predicates of the three queries, for page n
Matches(node, kind, n) ==
    /\ node.kind = kind
    /\ IF kind = "ab" THEN n \in node.refs ELSE node.refs = {n}

RECURSIVE Filter(_, _, _, _, _)
Filter(par, hol, kind, n, i) ==
    IF i > Len(doc.nodes) THEN <<>>
    ELSE (IF InRoot(par, hol, i) /\ Matches(doc.nodes[i], kind, n)
          THEN <<i>> ELSE <<>>) \o Filter(par, hol, kind, n, i + 1)

\* root.findall(".//tei:<kind>[...]") and root.xpath(...): the matching
\* descendants of the source root, in document order
FindAll(par, hol, kind, n) == Filter(par, hol, kind, n, 1)

RECURSIVE ExtractRange(_, _, _, _, _)
ExtractRange(par, hol, kind, n, stop) ==
    IF n >= stop THEN <<>>
    ELSE FindAll(par, hol, kind, n) \o ExtractRange(par, hol, kind, n + 1, stop)

extract_surface_elements(par, hol, r) ==
    ExtractRange(par, hol, "surface", r.start, r.stop)

extract_table_elements(par, hol, r) ==
    ExtractRange(par, hol, "table", r.start, r.stop)

----------------------------------------------------------------------------
\* The new tree.  t = [parent, holder, facsimile, div].

Without(seq, i) == SelectSeq(seq, LAMBDA x : x # i)

\* a child of div that is a moved source node
Child(i) == [tag |-> doc.nodes[i].kind, node |-> i, facs |-> <<>>,
             n |-> <<>>, id |-> <<>>]

\* etree.SubElement(div, 'pb', facs="#facs_<n>", n=str(n), xml:id="img_00<n>")
Pb(n) == [tag |-> "pb", node |-> 0,
          facs |-> <<"#", "f", "a", "c", "s", "_">> \o Str(n),
          n |-> Str(n),
          id |-> <<"i", "m", "g", "_", "0", "0">> \o Str(n)]

\* element.append(node): lxml moves the node, with its subtree, from
\* wherever it is to the end of the element's children
AppendTo(t, where, i) ==
    LET f == Without(t.facsimile, i)
        d == SelectSeq(t.div, LAMBDA x : x.node # i)
    IN  [parent |-> [t.parent EXCEPT ![i] = 0],
         holder |-> [t.holder EXCEPT ![i] = where],
         facsimile |-> IF where = "facsimile" THEN Append(f, i) ELSE f,
         div |-> IF where = "div" THEN Append(d, Child(i)) ELSE d]

RECURSIVE AppendAll(_, _, _)
\* for el in ids: element.append(el)
AppendAll(t, where, ids) ==
    IF ids = <<>> THEN t
    ELSE AppendAll(AppendTo(t, where, Head(ids)), where, Tail(ids))

Tree == [parent |-> parent, holder |-> holder, facsimile |-> facsimile,
         div |-> div]

\* Faulty variant of PageContent: the pb is created only for a page that
\* has content.
PageContentSkipEmpty(t, n) ==
    LET withPb == [t EXCEPT !.div = Append(t.div, Pb(n))]
        current_table_elements == FindAll(t.parent, t.holder, "table", n)
        text_elements == FindAll(t.parent, t.holder, "ab", n)
    IN  IF current_table_elements # <<>>
        THEN AppendAll(withPb, "div", current_table_elements)
        ELSE IF text_elements # <<>>
             THEN AppendAll(withPb, "div", text_elements)
             ELSE t

\* one iteration of the page loop on tree t: the pb, then the page's tables
\* or, when the source holds none, the page's ab nodes
PageContent(t, n) ==
    LET withPb == [t EXCEPT !.div = Append(t.div, Pb(n))]
        current_table_elements == FindAll(t.parent, t.holder, "table", n)
        text_elements == FindAll(t.parent, t.holder, "ab", n)
    IN  IF current_table_elements # <<>>
        THEN AppendAll(withPb, "div", current_table_elements)
        ELSE AppendAll(withPb, "div", text_elements)

----------------------------------------------------------------------------
\* Inputs of a run.

Pages == 1..MaxPage

NodeChoices ==
    {[kind |-> k, refs |-> {n}] : k \in {"surface", "table"}, n \in Pages}
    \cup {[kind |-> "ab", refs |-> R] : R \in (SUBSET Pages) \ {{}}}

RECURSIVE Ancestors(_, _)
\* i and the nodes enclosing it
Ancestors(par, i) ==
    IF i = 0 THEN {} ELSE {i} \cup Ancestors(par, par[i])

\* par lists the enclosing node of each node of a tree written in document
\* order: a node is a child of the root or of a node open just before it
IsDocumentOrder(par) ==
    \A i \in 1..Len(par) :
        \/ par[i] = 0
        \/ i > 1 /\ par[i] \in Ancestors(par, i - 1)

Shapes(k) == {par \in [1..k -> 0..k] : IsDocumentOrder(par)}

\* the source documents with k surface, table and ab nodes
DocsOfSize(k) ==
    {[nodes |-> ns, parent |-> par] :
        ns \in [1..k -> NodeChoices], par \in Shapes(k)}

\* the source documents with at most MaxNodes nodes
Docs == UNION {DocsOfSize(k) : k \in 0..MaxNodes}

\* the source documents with one node more: the smallest in which a node
\* lies inside a node moved earlier while a third node is selected
LargerDocs == DocsOfSize(MaxNodes + 1)

EmptyDoc == [nodes |-> <<>>, parent |-> <<>>]

\* a table and an ab of page 1, and an ab of page 2
SampleDoc ==
    [nodes |-> <<[kind |-> "surface", refs |-> {1}],
                 [kind |-> "table", refs |-> {1}],
                 [kind |-> "ab", refs |-> {1, 2}]>>,
     parent |-> <<0, 0, 0>>]

\* the non-empty ranges [start, stop) of pages 1..MaxPage
PageRanges ==
    {[start |-> a, stop |-> b] : a \in Pages, b \in 2..(MaxPage + 1)}
    \ {r \in [start : Pages, stop : 2..(MaxPage + 1)] : r.stop <= r.start}

Year1758 == <<"1", "7", "5", "8">>
Year1759 == <<"1", "7", "5", "9">>

\* range(81, 89), the range of the script, and ranges around the widths of
\* the page numbers
NameRanges ==
    {[start |-> a, stop |-> a + k] :
        a \in {0, 9, 10, 81, 99, 100, 999, 1000}, k \in 1..MaxSpan}
    \cup {[start |-> 81, stop |-> 89]}

Bytes == {NL, "<", "l", "b", ">", " "}

\* the byte strings of at most MaxLen bytes
ByteStrings == UNION {[1..k -> Bytes] : k \in 0..MaxLen}

SampleBytes == <<">", NL, "<", "l", "b", " ">>

\* what a stylesheet can turn the intermediate document into, serialized:
\* the sample stylesheet gives SampleBytes, any other any byte string
Results(stylesheet) ==
    IF stylesheet = "sample" THEN {SampleBytes} ELSE ByteStrings

InitWith(docs, ranges, years, stylesheets, olds) ==
    /\ pc = "parse"
    /\ doc \in docs
    /\ facs_start_range \in ranges
    /\ year_of_volume \in years
    /\ xslt \in stylesheets
    /\ transformed_tree = <<>>
    /\ root = "unset"
    /\ parent = <<>>
    /\ holder = <<>>
    /\ surface_elements = <<>>
    /\ table_elements = <<>>
    /\ tei_root = [built |-> FALSE, title |-> <<>>, date |-> <<>>,
                   bibl_title |-> <<>>]
    /\ facsimile = <<>>
    /\ div = <<>>
    /\ facs_start = facs_start_range.start
    /\ \E old \in olds :
          fs = [p \in {IntermediatePath, FinalPath} |->
                   IF \/ p = IntermediatePath /\ old.before
                      \/ p = FinalPath /\ old.final
                   THEN "old" ELSE "absent"]
    /\ final_bytes = <<>>
    /\ stdout = <<>>
    /\ log = <<>>
    /\ failed = "none"
    /\ error = "none"

\* which of the two output files exist before the run
NoOldFiles == {[before |-> FALSE, final |-> FALSE]}
AnyOldFiles == [before : BOOLEAN, final : BOOLEAN]

----------------------------------------------------------------------------
\* The main block, one action per step.

Halt(stage, exception) ==
    /\ pc' = "crashed"
    /\ failed' = stage
    /\ error' = exception

\* root = parse_xml(file_path); if root is None: exit()
ParseXml ==
    /\ pc = "parse"
    /\ \/ /\ root' = "tree"
          /\ parent' = doc.parent
          /\ holder' = [i \in Nodes |-> "root"]
          /\ log' = Append(log, "Parsed")
          /\ pc' = "extract"
          /\ UNCHANGED <<stdout, failed, error>>
       \/ \* etree.parse raises IOError: caught, reported, None returned
          /\ root' = "none"
          /\ stdout' = Append(stdout, "Error reading")
          /\ pc' = "exited"
          /\ failed' = "Parsed"
          /\ error' = "IOError"
          /\ UNCHANGED <<parent, holder, log>>
       \/ \* etree.parse raises XMLSyntaxError, which is no IOError
          /\ Halt("Parsed", "XMLSyntaxError")
          /\ UNCHANGED <<root, parent, holder, log, stdout>>
    /\ UNCHANGED <<doc, facs_start_range, year_of_volume, xslt,
                   transformed_tree,
                   surface_elements, table_elements, tei_root, facsimile,
                   div, facs_start, fs, final_bytes>>

\* surface_elements = extract_surface_elements(...);
\* table_elements = extract_table_elements(...)
ExtractElements ==
    /\ pc = "extract"
    /\ surface_elements' =
           extract_surface_elements(parent, holder, facs_start_range)
    /\ table_elements' =
           extract_table_elements(parent, holder, facs_start_range)
    /\ log' = Append(log, "Selected")
    /\ pc' = "header"
    /\ UNCHANGED <<doc, facs_start_range, year_of_volume, xslt,
                   transformed_tree,
                   root, parent, holder, tei_root, facsimile, div,
                   facs_start, fs, final_bytes, stdout, failed, error>>

TitlePrefix == <<"Repertoire de tous les Spectacles ">>

create_tei_header(year) ==
    [built |-> TRUE, title |-> TitlePrefix \o year, date |-> year,
     bibl_title |-> TitlePrefix \o year]

\* tei_root = create_tei_header(...)
CreateHeader ==
    /\ pc = "header"
    /\ tei_root' = create_tei_header(year_of_volume)
    /\ log' = Append(log, "HeaderBuilt")
    /\ pc' = "facsimile"
    /\ UNCHANGED <<doc, facs_start_range, year_of_volume, xslt,
                   transformed_tree,
                   root, parent, holder, surface_elements, table_elements,
                   facsimile, div, facs_start, fs, final_bytes, stdout,
                   failed, error>>

\* the facsimile element with the surfaces; the empty text/body/div
AddFacsimile ==
    /\ pc = "facsimile"
    /\ LET t == AppendAll(Tree, "facsimile", surface_elements)
       IN  /\ parent' = t.parent
           /\ holder' = t.holder
           /\ facsimile' = t.facsimile
           /\ div' = t.div
    /\ log' = Append(log, "Assembled")
    /\ pc' = "pages"
    /\ UNCHANGED <<doc, facs_start_range, year_of_volume, xslt,
                   transformed_tree,
                   root, surface_elements, table_elements, tei_root,
                   facs_start, fs, final_bytes, stdout, failed, error>>

\* what one iteration of the page loop adds to the log: the pb is appended,
\* the page's nodes are selected, and those found are appended
PageStages(t, n) ==
    <<"Assembled", "Selected">>
    \o (IF FindAll(t.parent, t.holder, "table", n) # <<>>
           \/ FindAll(t.parent, t.holder, "ab", n) # <<>>
        THEN <<"Assembled">> ELSE <<>>)

\* for facs_start in facs_start_range: one iteration
PageStep ==
    /\ pc = "pages"
    /\ facs_start < facs_start_range.stop
    /\ LET t == PageContent(Tree, facs_start)
       IN  /\ parent' = t.parent
           /\ holder' = t.holder
           /\ facsimile' = t.facsimile
           /\ div' = t.div
    /\ log' = log \o PageStages(Tree, facs_start)
    /\ facs_start' = facs_start + 1
    /\ pc' = IF facs_start + 1 < facs_start_range.stop THEN "pages" ELSE "save"
    /\ UNCHANGED <<doc, facs_start_range, year_of_volume, xslt,
                   transformed_tree,
                   root, surface_elements, table_elements, tei_root, fs,
                   final_bytes, stdout, failed, error>>

\* Faulty variant of SaveIntermediate: a failed write is swallowed and the
\* run goes on to the transform.
SaveIntermediateSwallowed ==
    /\ pc = "save"
    /\ LET warned == IF fs[IntermediatePath] # "absent"
                     THEN Append(stdout, "Warning: already exists")
                     ELSE stdout
       IN  \/ /\ fs' = [fs EXCEPT ![IntermediatePath] = "tei"]
              /\ stdout' = Append(warned, "original saved")
              /\ log' = Append(log, "IntermediateWritten")
              /\ pc' = "transform"
              /\ UNCHANGED <<failed, error>>
           \/ /\ pc' = "transform"
              /\ failed' = "IntermediateWritten"
              /\ error' = "OSError"
              /\ stdout' = warned
              /\ UNCHANGED <<fs, log>>
    /\ UNCHANGED <<doc, facs_start_range, year_of_volume, xslt,
                   transformed_tree,
                   root, parent, holder, surface_elements, table_elements,
                   tei_root, facsimile, div, facs_start, final_bytes>>

\* save_xml_to_file(output_file_path, tei_str)
SaveIntermediate ==
    /\ pc = "save"
    /\ LET warned == IF fs[IntermediatePath] # "absent"
                     THEN Append(stdout, "Warning: already exists")
                     ELSE stdout
       IN  \/ /\ fs' = [fs EXCEPT ![IntermediatePath] = "tei"]
              /\ stdout' = Append(warned, "original saved")
              /\ log' = Append(log, "IntermediateWritten")
              /\ pc' = "transform"
              /\ UNCHANGED <<failed, error>>
           \/ \* open() raises
              /\ Halt("IntermediateWritten", "OSError")
              /\ stdout' = warned
              /\ UNCHANGED <<fs, log>>
    /\ UNCHANGED <<doc, facs_start_range, year_of_volume, xslt,
                   transformed_tree,
                   root, parent, holder, surface_elements, table_elements,
                   tei_root, facsimile, div, facs_start, final_bytes>>

\* Faulty variant of TransformXml: a failed transform removes the
\* intermediate file before the run ends.
TransformXmlRollback ==
    /\ pc = "transform"
    /\ \/ /\ transformed_tree' \in Results(xslt)
          /\ log' = Append(log, "Transformed")
          /\ pc' = "final"
          /\ UNCHANGED <<failed, error, fs>>
       \/ /\ \E e \in {"XSLTParseError", "XSLTApplyError"} :
                 Halt("Transformed", e)
          /\ fs' = [fs EXCEPT ![IntermediatePath] = "absent"]
          /\ UNCHANGED <<transformed_tree, log>>
    /\ UNCHANGED <<doc, facs_start_range, year_of_volume, xslt,
                   root, parent, holder, surface_elements, table_elements,
                   tei_root, facsimile, div, facs_start, final_bytes,
                   stdout>>

\* original_tree = etree.parse(output_file_path);
\* transformed_tree = transform_xml(xslt_path, original_tree)
TransformXml ==
    /\ pc = "transform"
    /\ \/ /\ transformed_tree' \in Results(xslt)
          /\ log' = Append(log, "Transformed")
          /\ pc' = "final"
          /\ UNCHANGED <<failed, error>>
       \/ \* the stylesheet cannot be loaded (etree.parse, etree.XSLT) or
          \* cannot be applied: nothing catches the exception
          /\ \E e \in {"XSLTParseError", "XSLTApplyError"} :
                 Halt("Transformed", e)
          /\ UNCHANGED <<transformed_tree, log>>
    /\ UNCHANGED <<doc, facs_start_range, year_of_volume, xslt,
                   root, parent, holder, surface_elements, table_elements,
                   tei_root, facsimile, div, facs_start, fs, final_bytes,
                   stdout>>

\* transformed_xml_string = clean_transformed_xml(transformed_tree);
\* written to transformed_output_path
WriteFinal ==
    /\ pc = "final"
    /\ \/ /\ final_bytes' = clean_transformed_xml(transformed_tree)
          /\ fs' = [fs EXCEPT ![FinalPath] = "final"]
          /\ stdout' = Append(stdout, "transformed saved")
          /\ log' = Append(log, "FinalWritten")
          /\ pc' = "remove"
          /\ UNCHANGED <<failed, error>>
       \/ \* open() raises
          /\ Halt("FinalWritten", "OSError")
          /\ UNCHANGED <<final_bytes, fs, stdout, log>>
    /\ UNCHANGED <<doc, facs_start_range, year_of_volume, xslt,
                   transformed_tree,
                   root, parent, holder, surface_elements, table_elements,
                   tei_root, facsimile, div, facs_start>>

\* os.remove(output_file_path)
RemoveIntermediate ==
    /\ pc = "remove"
    /\ \/ /\ fs' = [fs EXCEPT ![IntermediatePath] = "absent"]
          /\ log' = Append(log, "IntermediateDeleted")
          /\ pc' = "done"
          /\ UNCHANGED <<failed, error>>
       \/ \* os.remove raises OSError: nothing catches it
          /\ Halt("IntermediateDeleted", "OSError")
          /\ UNCHANGED <<fs, log>>
    /\ UNCHANGED <<doc, facs_start_range, year_of_volume, xslt,
                   transformed_tree,
                   root, parent, holder, surface_elements, table_elements,
                   tei_root, facsimile, div, facs_start, final_bytes, stdout>>

Next ==
    \/ ParseXml
    \/ ExtractElements
    \/ CreateHeader
    \/ AddFacsimile
    \/ PageStep
    \/ SaveIntermediate
    \/ TransformXml
    \/ WriteFinal
    \/ RemoveIntermediate

\* the whole pipeline on a sample document
Init ==
    InitWith({EmptyDoc, SampleDoc}, PageRanges, {Year1758},
             {"sample"}, AnyOldFiles)

Spec == Init /\ [][Next]_vars

\* every source document of the bounds, every page range
InitSelect ==
    InitWith(Docs, PageRanges, {Year1758}, {"sample"}, NoOldFiles)

SpecSelect == InitSelect /\ [][Next]_vars

\* the larger source documents, every page range
InitNested ==
    InitWith(LargerDocs, PageRanges, {Year1758}, {"sample"}, NoOldFiles)

SpecNested == InitNested /\ [][Next]_vars

\* every serialized stylesheet result of the bounds
InitFixup ==
    InitWith({EmptyDoc}, {[start |-> 1, stop |-> 2]}, {Year1758},
             {"any"}, NoOldFiles)

SpecFixup == InitFixup /\ [][Next]_vars

\* page ranges of every width of page number
InitNames ==
    InitWith({EmptyDoc}, NameRanges, {Year1758, Year1759}, {"sample"},
             AnyOldFiles)

SpecNames == InitNames /\ [][Next]_vars

----------------------------------------------------------------------------
\* Vocabulary of the properties.

\* pat occurs in s
Contains(s, pat) ==
    \E k \in 1..(Len(s) - Len(pat) + 1) :
        SubSeq(s, k, k + Len(pat) - 1) = pat

\* the pages whose iteration of the page loop is over
ProcessedPages == facs_start_range.start..(facs_start - 1)

LoopDone == root = "tree" /\ facs_start = facs_start_range.stop

\* the pb elements of div, in order
PbElements == SelectSeq(div, LAMBDA x : x.tag = "pb")

\* the position in div of the pb of page n, 0 when there is none
PbIndex(n) ==
    IF \E k \in 1..Len(div) : div[k] = Pb(n)
    THEN CHOOSE k \in 1..Len(div) : div[k] = Pb(n)
    ELSE 0

\* the positions in div between the pb of page n and the next pb
ContentOf(n) ==
    {k \in (PbIndex(n) + 1)..Len(div) :
        \A j \in (PbIndex(n) + 1)..k : div[j].tag # "pb"}

\* the source document holds a node that the queries of page n match
PageMatches(n) ==
    \E i \in 1..Len(doc.nodes) : \E kind \in {"surface", "table", "ab"} :
        Matches(doc.nodes[i], kind, n)

\* the source document holds a table of page n
SourceHoldsTable(n) ==
    \E i \in 1..Len(doc.nodes) : Matches(doc.nodes[i], "table", n)

----------------------------------------------------------------------------
\* C1: at every point of the page loop, and so in the assembled div, the pb
\* elements are exactly one per processed page, in ascending page order,
\* each with n = str(page); a page that matches no surface, table or ab
\* node has its pb followed directly by the next pb or by the end of div.
C1_OnePbPerPage ==
    /\ Len(PbElements) = facs_start - facs_start_range.start
    /\ \A k \in 1..Len(PbElements) :
          /\ PbElements[k].n = Str(facs_start_range.start + k - 1)
          /\ PbElements[k] = Pb(facs_start_range.start + k - 1)
    /\ \A n \in ProcessedPages :
          /\ PbIndex(n) > 0
          /\ ~PageMatches(n) => ContentOf(n) = {}

\* a finished loop over two pages, the first matching nothing, the second
\* with content
C1_Witness ==
    /\ LoopDone
    /\ facs_start_range.stop - facs_start_range.start = 2
    /\ ~PageMatches(facs_start_range.start)
    /\ ContentOf(facs_start_range.start + 1) # {}

----------------------------------------------------------------------------
\* C2: per page, the nodes after the pb are only tables of the page or only
\* ab nodes of the page; and when the source holds a table of page n, no ab
\* node is placed for page n.
C2_TableExcludesText ==
    \A n \in ProcessedPages :
        /\ \/ \A k \in ContentOf(n) :
                 /\ div[k].tag = "table"
                 /\ doc.nodes[div[k].node].refs = {n}
           \/ \A k \in ContentOf(n) :
                 /\ div[k].tag = "ab"
                 /\ n \in doc.nodes[div[k].node].refs
        /\ SourceHoldsTable(n) => \A k \in ContentOf(n) : div[k].tag # "ab"

----------------------------------------------------------------------------
\* C10: selection moves nodes.  After assembly no selected node is left in
\* the source tree and no source node occurs twice in the output tree; an
\* ab node is placed only under the lowest page of the range that its facs
\* names and that has no table in the source, and under no other page.

\* the source nodes that are children of facsimile or of div
OutputNodes ==
    {facsimile[k] : k \in 1..Len(facsimile)}
    \cup {div[k].node : k \in {j \in 1..Len(div) : div[j].tag # "pb"}}

\* the nodes some query of the run returned
SelectedNodes ==
    {surface_elements[k] : k \in 1..Len(surface_elements)}
    \cup {table_elements[k] : k \in 1..Len(table_elements)}
    \cup {div[k].node : k \in {j \in 1..Len(div) : div[j].tag # "pb"}}

\* how often node i is a child of facsimile or of div
Occurrences(i) ==
    Cardinality({k \in 1..Len(facsimile) : facsimile[k] = i})
    + Cardinality({k \in 1..Len(div) : div[k].node = i})

\* the pages of the range that node i names
RangePagesOf(i) ==
    {n \in facs_start_range.start..(facs_start_range.stop - 1) :
        n \in doc.nodes[i].refs}

\* those of them that have no table in the source
FreePagesOf(i) == {n \in RangePagesOf(i) : ~SourceHoldsTable(n)}

C10_MovedNotCopied ==
    /\ LoopDone => \A i \in SelectedNodes : ~InRoot(parent, holder, i)
    /\ \A i \in OutputNodes : Occurrences(i) = 1
    /\ \A n \in ProcessedPages : \A k \in ContentOf(n) :
          div[k].tag = "ab" /\ Cardinality(RangePagesOf(div[k].node)) > 1 =>
              /\ FreePagesOf(div[k].node) # {}
              /\ \A m \in FreePagesOf(div[k].node) : n <= m

----------------------------------------------------------------------------
\* C3: the fixup removes a line break directly before "<lb", keeps the one
\* of a ">\n<lb " sequence, and alters no other byte.

RECURSIVE FixupAsDocumented(_, _)
\* s with every line break directly before "<lb" removed, except where the
\* byte before it (prev) is ">" and "<lb" is followed by a space
FixupAsDocumented(prev, s) ==
    IF s = <<>> THEN <<>>
    ELSE IF /\ s[1] = NL
            /\ Len(s) >= 4
            /\ SubSeq(s, 2, 4) = Lb
            /\ ~(prev = ">" /\ Len(s) >= 5 /\ s[5] = " ")
         THEN FixupAsDocumented(s[1], Tail(s))
         ELSE <<s[1]>> \o FixupAsDocumented(s[1], Tail(s))

FinalWritten == fs[FinalPath] = "final"

C3_KeepsBreakAfterTag ==
    FinalWritten => final_bytes = FixupAsDocumented("", transformed_tree)

----------------------------------------------------------------------------
\* C4: the fixup is idempotent: applied to the bytes it produced, it
\* returns them unchanged.
C4_FixupIdempotent ==
    FinalWritten => clean_transformed_xml(final_bytes) = final_bytes

----------------------------------------------------------------------------
\* Reading a path name back: its frame and the numbers in it.

DigitSet == {Digits[k] : k \in 1..10}

IsDigits(s) == s # <<>> /\ \A k \in 1..Len(s) : s[k] \in DigitSet

DigitValue(c) == (CHOOSE k \in 1..10 : Digits[k] = c) - 1

RECURSIVE Value(_)
\* the number a digit string denotes
Value(s) ==
    IF s = <<>> THEN 0
    ELSE 10 * Value(SubSeq(s, 1, Len(s) - 1)) + DigitValue(s[Len(s)])

RECURSIVE Width(_)
\* the number of digits of n
Width(n) == IF n < 10 THEN 1 ELSE 1 + Width(n \div 10)

\* s is n in decimal, without padding
IsPlain(s, n) == IsDigits(s) /\ Value(s) = n /\ Len(s) = Width(n)

\* s is n in decimal, zero-padded to three digits
IsPadded(s, n) ==
    IsDigits(s) /\ Value(s) = n /\ Len(s) = (IF Width(n) < 3 THEN 3 ELSE Width(n))

\* s is "<first>-<last>", each number written as IsNumber says
IsSpan(s, IsNumber(_, _), first, last) ==
    \E k \in 1..Len(s) :
        /\ s[k] = "-"
        /\ IsNumber(SubSeq(s, 1, k - 1), first)
        /\ IsNumber(SubSeq(s, k + 1, Len(s)), last)

\* path is output/<year>_<stem><ending>
HasFrame(path, ending) ==
    LET head == OutputDir \o year_of_volume \o <<"_">>
    IN  /\ Len(path) > Len(head) + Len(ending)
        /\ SubSeq(path, 1, Len(head)) = head
        /\ SubSeq(path, Len(path) - Len(ending) + 1, Len(path)) = ending

StemOf(path, ending) ==
    SubSeq(path, Len(OutputDir) + Len(year_of_volume) + 2,
           Len(path) - Len(ending))

OnePage == facs_start_range.stop - facs_start_range.start = 1

\* path is output/{y}_{a}-{b-1}_before.xml, or output/{y}_{a}_before.xml
\* for a range of one page
IsIntermediateName(path) ==
    /\ HasFrame(path, BeforeXml)
    /\ IF OnePage
       THEN IsPlain(StemOf(path, BeforeXml), facs_start_range.start)
       ELSE IsSpan(StemOf(path, BeforeXml), IsPlain,
                   facs_start_range.start, facs_start_range.stop - 1)

\* path is output/{y}_{A}-{B}.xml
IsSpanFinalName(path) ==
    /\ HasFrame(path, DotXml)
    /\ IsSpan(StemOf(path, DotXml), IsPadded,
              facs_start_range.start, facs_start_range.stop - 1)

\* path is output/{y}_{A}.xml
IsOnePageFinalName(path) ==
    /\ HasFrame(path, DotXml)
    /\ IsPadded(StemOf(path, DotXml), facs_start_range.start)

\* the paths this run wrote the assembled tree, and the cleaned bytes, to
WrittenAs(what) == {p \in DOMAIN fs : fs[p] = what}

\* C5 as stated: the intermediate file is named with the plain range, the
\* range suffix omitted for one page; the final file is always named
\* {y}_{A}-{B}.xml; the two paths differ.
C5_NamesAsStated ==
    /\ \A p \in WrittenAs("tei") : IsIntermediateName(p)
    /\ \A p \in WrittenAs("final") : IsSpanFinalName(p)
    /\ IntermediatePath # FinalPath
    /\ pc = "remove" => WrittenAs("tei") # {} /\ WrittenAs("final") # {}

\* C5, amended: as stated, but the final file of a one-page range is named
\* {y}_{A}.xml, the range suffix omitted as for the intermediate file.
C5_OutputNames ==
    /\ \A p \in WrittenAs("tei") : IsIntermediateName(p)
    /\ \A p \in WrittenAs("final") :
          IF OnePage THEN IsOnePageFinalName(p) ELSE IsSpanFinalName(p)
    /\ IntermediatePath # FinalPath
    /\ pc = "remove" => WrittenAs("tei") # {} /\ WrittenAs("final") # {}

\* both files written, for the one-page range [9, 10)
C5_Witness ==
    /\ pc = "remove"
    /\ facs_start_range = [start |-> 9, stop |-> 10]
    /\ fs[IntermediatePath] = "tei"
    /\ fs[FinalPath] = "final"

----------------------------------------------------------------------------
\* Stages and the state of the files.

\* the file at path is as it was before the run: not created, not rewritten
Untouched(path) == fs[path] \in {"absent", "old"}

Stopped == pc \in {"crashed", "exited"}

\* the stages in the order in which the main block first enters them
CodeOrder ==
    <<"Parsed", "Selected", "HeaderBuilt", "Assembled",
      "IntermediateWritten", "Transformed", "FinalWritten",
      "IntermediateDeleted">>

\* the stages in the order of the documented state machine
DocumentedOrder ==
    <<"Parsed", "HeaderBuilt", "Selected", "Assembled",
      "IntermediateWritten", "Transformed", "FinalWritten",
      "IntermediateDeleted">>

Rank(order, stage) == CHOOSE k \in 1..Len(order) : order[k] = stage

InLog(stage) == \E k \in 1..Len(log) : log[k] = stage

\* the stage that failed, and every stage after it in order, was not entered
NothingFrom(order, stage) ==
    \A k \in 1..Len(log) : Rank(order, log[k]) < Rank(order, stage)

----------------------------------------------------------------------------
\* C6: whenever the source cannot be read or parsed, parse_xml
\* reports the error and yields None, the run ends at once, no stage runs
\* and neither output file is created or overwritten.
C6_AnyLoadFailureReported ==
    failed = "Parsed" =>
        /\ root = "none"
        /\ stdout = <<"Error reading">>
        /\ Stopped
        /\ log = <<>>
        /\ ~tei_root.built
        /\ Untouched(IntermediatePath) /\ Untouched(FinalPath)

----------------------------------------------------------------------------
\* C7: when loading the stylesheet or applying the transform fails, the run
\* has ended, the intermediate file written by this run exists, the final
\* file has not been written and the intermediate file was not deleted.
C7_TransformFailureKeepsIntermediate ==
    failed = "Transformed" =>
        /\ pc = "crashed"
        /\ error \in {"XSLTParseError", "XSLTApplyError"}
        /\ fs[IntermediatePath] = "tei"
        /\ Untouched(FinalPath)
        /\ final_bytes = <<>>
        /\ ~InLog("FinalWritten")
        /\ ~InLog("IntermediateDeleted")

\* the transform could not be applied
C7_Witness ==
    /\ failed = "Transformed"
    /\ error = "XSLTApplyError"
    /\ InLog("IntermediateWritten")

----------------------------------------------------------------------------
\* C8: the deletion is attempted only after the final file is written, and
\* its failure is warned and not fatal: the run completes normally and the
\* final file stays as written.
C8_DeletionFailureNotFatal ==
    /\ InLog("IntermediateDeleted") \/ failed = "IntermediateDeleted" =>
          InLog("FinalWritten") /\ fs[FinalPath] = "final"
    /\ failed = "IntermediateDeleted" =>
          /\ pc = "done"
          /\ \E k \in 1..Len(stdout) : stdout[k] = "Warning: not deleted"

----------------------------------------------------------------------------
\* C9 as stated: the stages are entered in the documented order, each after
\* its predecessor; a failed stage and the stages after it are not entered.
C9_DocumentedOrder ==
    /\ log # <<>> => log[1] = "Parsed"
    /\ \A k \in 1..(Len(log) - 1) :
          Rank(DocumentedOrder, log[k]) <= Rank(DocumentedOrder, log[k + 1])
    /\ failed # "none" => Stopped /\ NothingFrom(DocumentedOrder, failed)
    /\ pc = "done" => \A k \in 1..Len(CodeOrder) : InLog(CodeOrder[k])

\* the stages that may directly follow one another from the first
\* assembly on: the page loop appends a pb, selects, and appends what it
\* found
LoopSteps ==
    {<<"Assembled", "Assembled">>, <<"Assembled", "Selected">>,
     <<"Selected", "Assembled">>, <<"Selected", "IntermediateWritten">>,
     <<"Assembled", "IntermediateWritten">>,
     <<"IntermediateWritten", "Transformed">>,
     <<"Transformed", "FinalWritten">>,
     <<"FinalWritten", "IntermediateDeleted">>}

\* C9, amended: the stages are entered in the order Parsed, Selected
\* (surfaces and tables), HeaderBuilt, Assembled, IntermediateWritten,
\* Transformed, FinalWritten, IntermediateDeleted, the selection of each
\* page's tables or ab nodes being interleaved with the assembly; a failed
\* stage and the stages after it are not entered.
C9_StageOrder ==
    /\ \A k \in 1..Len(log) : k <= 4 => log[k] = CodeOrder[k]
    /\ \A k \in 4..(Len(log) - 1) : <<log[k], log[k + 1]>> \in LoopSteps
    /\ failed # "none" => Stopped /\ NothingFrom(CodeOrder, failed)
    /\ pc = "done" => \A k \in 1..Len(CodeOrder) : InLog(CodeOrder[k])

\* a complete run in which a page was selected after the assembly began
C9_Witness ==
    /\ pc = "done"
    /\ \E k \in 5..Len(log) : log[k] = "Selected"
    /\ log[Len(log)] = "IntermediateDeleted"

====
